---- MODULE Spec2Model ----
(***************************************************************************)
(* Model of src/src/blockchain.js: the Blockchain class (an in-memory      *)
(* hash-linked chain of blocks) and its promise-based operations.          *)
(*                                                                         *)
(* Every operation is cut at the points where the JavaScript code hands    *)
(* control back to the event loop (a .then callback, an await): one action *)
(* is one synchronous run.  The continuations wait in `tasks`, the         *)
(* microtask queue, which runs them first in, first out; a caller may      *)
(* start a new call between any two of them.                               *)
(*                                                                         *)
(* Strings are sequences of character codes: 0..9 are the digits, larger   *)
(* codes are letters.  A message is kept as the list of its colon-free     *)
(* segments, which is what message.split(':') returns.                     *)
(***************************************************************************)
EXTENDS Integers, Sequences, FiniteSets, TLC

VARIABLES
    chain,      \* this.chain: the sequence of block objects
    height,     \* this.height
    clock,      \* new Date().getTime(): milliseconds
    tasks,      \* the microtask queue: the continuations of the calls in flight
    outcome,    \* what the last step settled for a caller, if anything
    started,    \* history: append-type calls started by clients since construction
    overlap,    \* history: an append-type call was started while another was in flight
    appended,   \* history: blocks pushed by calls other than the constructor's
    tampered    \* history: positions of chain whose block was altered from outside

vars == <<chain, height, clock, tasks, outcome, started, overlap, appended, tampered>>

-----------------------------------------------------------------------------
(* Bounds of the model *)

MaxChain == 3
MaxInflight == 2

(* The instant, in milliseconds, at which the challenges that get submitted *)
(* were issued, and the instants the clock takes afterwards: a late         *)
(* millisecond of the second 299 s later, an early one of the second 300 s  *)
(* later.                                                                   *)
Issued == 1000000250
Times == {Issued + 299650, Issued + 300000}

(* Two wallet addresses, "A" and "B" *)
Addresses == {<<10>>, <<11>>}
Stars == {1}
Signatures == {"valid", "nonmatching", "malformed"}

-----------------------------------------------------------------------------
(* JavaScript numbers and strings *)

NaN == [nan |-> TRUE, val |-> 0]
Num(v) == [nan |-> FALSE, val |-> v]

Sub(a, b) == IF a.nan \/ b.nan THEN NaN ELSE Num(a.val - b.val)
Less(a, b) == ~a.nan /\ ~b.nan /\ a.val < b.val

Undefined == [def |-> FALSE, str |-> <<>>]
Str(s) == [def |-> TRUE, str |-> s]

IsDigit(c) == c \in 0..9

RECURSIVE NumToString(_)
NumToString(n) ==
    IF n < 10 THEN <<n>> ELSE Append(NumToString(n \div 10), n % 10)

Slice(s, k) == SubSeq(s, 1, Len(s) - k)

RECURSIVE DigitPrefix(_)
DigitPrefix(s) ==
    IF s = <<>> \/ ~IsDigit(Head(s)) THEN <<>>
    ELSE <<Head(s)>> \o DigitPrefix(Tail(s))

RECURSIVE DigitsValue(_)
DigitsValue(s) ==
    IF s = <<>> THEN 0 ELSE 10 * DigitsValue(SubSeq(s, 1, Len(s) - 1)) + s[Len(s)]

parseInt(x) ==
    IF ~x.def THEN NaN
    ELSE LET p == DigitPrefix(x.str)
         IN IF p = <<>> THEN NaN ELSE Num(DigitsValue(p))

(* new Date().getTime().toString().slice(0,-3) *)
NowSeconds(ms) == Slice(NumToString(ms), 3)

(* message.split(':')[1] *)
SecondSegment(message) ==
    IF Len(message.segs) >= 2 THEN Str(message.segs[2]) ELSE Undefined

-----------------------------------------------------------------------------
(* External capabilities *)

Null == <<>>

(* SHA256(...).toString(): an ideal digest, one token per input *)
SHA256(s) == <<s>>

(* JSON.stringify(block): the block's own enumerable fields, in order *)
Stringify(b) == <<b.hash, b.height, b.body, b.time, b.previousBlockHash>>

(* bitcoinMessage.verify(message, address, signature): true, false, or throws *)
VerifyThrows(message, address, signature) == signature = "malformed"
Verify(message, address, signature) == signature = "valid"

-----------------------------------------------------------------------------
(* block.js: the Block class *)

Encode(data) == <<"hex", data>>
Decode(body) == body[2]

Block(data) ==
    [hash |-> Null, height |-> 0, body |-> Encode(data), time |-> <<0>>,
     previousBlockHash |-> Null]

(* block.validate(): the digest of the block with its hash blanked, against
   the stored hash; the promise resolves with the result and never rejects *)
BlockValidate(b) == SHA256(Stringify([b EXCEPT !.hash = Null])) = b.hash
BlockValidateRejects(b) == FALSE

GenesisData == [data |-> "Genesis Block"]
StarData(address, message, signature, star) ==
    [address |-> address, message |-> message, signature |-> signature,
     star |-> star]

-----------------------------------------------------------------------------
(* Inputs *)

Msg(segs) == [splittable |-> TRUE, segs |-> segs]
NotAString == [splittable |-> FALSE, segs |-> <<>>]

(* "<address>:<seconds>:starRegistry" *)
Challenge(address, ms) == Msg(<<address, NowSeconds(ms), <<12>>>>)

(* The submissions tried.  For address "A": the challenge issued at Issued
   with every kind of signature, a challenge issued long before, and the
   malformed messages, these with a signature that verifies.  For the other
   addresses: a challenge issued at the first instant of the clock, signed *)
Submissions(address) ==
    IF address = <<10>>
    THEN {<<Challenge(address, Issued), sig>> : sig \in Signatures}
         \cup {<<Challenge(address, Issued - 1000000), "valid">>,
               <<Msg(<<address>>), "valid">>,                  \* no second segment
               <<Msg(<<address, <<13>>, <<12>>>>), "valid">>,  \* second segment "x"
               <<NotAString, "valid">>}
    ELSE {<<Challenge(address, Issued + 299650), "valid">>}

StaleHash == SHA256(Null)

-----------------------------------------------------------------------------
(* State *)

NoOutcome ==
    [op |-> "none", status |-> "none", reason |-> "", block |-> 0,
     elapsed |-> NaN, verified |-> FALSE,
     failing |-> {}, mismatch |-> {}, altered |-> {}, errors |-> <<>>,
     arg |-> 0, address |-> <<>>, stars |-> <<>>, message |-> <<>>]

AppendOps == {"initializeChain", "_addBlock", "submitStar"}

InFlightAppend == \E s \in 1..Len(tasks) : tasks[s].op \in AppendOps

NumInFlightAppends == Cardinality({s \in 1..Len(tasks) : tasks[s].op \in AppendOps})

(* A new call is accepted while the bounds leave room for it *)
CanCall == Len(tasks) < MaxInflight
Room == CanCall /\ Len(chain) + NumInFlightAppends < MaxChain

(* getChainHeight(): resolve(this.height) *)
getChainHeight == height

(* _addBlock(block), up to the point its .then callback is queued: the
   height is read now, the callback runs later *)
AddBlockTask(origin, block, ctor, elapsed, verified) ==
    [op |-> origin, pc |-> "then", block |-> block,
     chainHeight |-> getChainHeight, ctor |-> ctor,
     elapsed |-> elapsed, verified |-> verified]


Init ==
    /\ chain = <<>>
    /\ height = -1
    /\ clock \in {t \in Times : \A u \in Times : t <= u}
    /\ tasks = <<AddBlockTask("initializeChain", Block(GenesisData), TRUE,
                               NaN, FALSE)>>
    /\ outcome = NoOutcome
    /\ started = FALSE
    /\ overlap = FALSE
    /\ appended = 0
    /\ tampered = {}

-----------------------------------------------------------------------------
(* _addBlock: the callback of getChainHeight().then(...) *)

(* Variant: the height read is used as it is *)
NewHeightNotAdvanced(chainHeight) == chainHeight

NewHeight(chainHeight) == chainHeight + 1

(* Variant: the previous hash is never filled in *)
LinkLeftAsIs(block, chainHeight, ch) == block.previousBlockHash

Link(block, chainHeight, ch) ==
    IF chainHeight > -1 THEN ch[chainHeight + 1].hash ELSE block.previousBlockHash

(* Variant: the digest is taken before the time is assigned *)
SealBeforeTime(b) == [b EXCEPT !.hash = SHA256(Stringify([b EXCEPT !.time = <<0>>]))]

Seal(b) == [b EXCEPT !.hash = SHA256(Stringify(b))]

(* Variant: the block is pushed with its height alone assigned *)
PrepareHeightOnly(block, chainHeight, ch, ms) ==
    [block EXCEPT !.height = NewHeight(chainHeight)]

Prepare(block, chainHeight, ch, ms) ==
    Seal([block EXCEPT !.height = NewHeight(chainHeight),
                       !.previousBlockHash = Link(block, chainHeight, ch),
                       !.time = NowSeconds(ms)])

(* Variant: the block is put in front of the chain *)
PushFront(ch, b) == <<b>> \o ch

(* self.chain.push(block) *)
Push(ch, b) == Append(ch, b)

(* Variant: the cached height is left alone after the push *)
IncrementedNot(h) == h

Incremented(h) == h + 1

AddBlockThen ==
    /\ tasks # <<>>
    /\ Head(tasks).op \in AppendOps
    /\ Head(tasks).pc = "then"
    /\ LET t == Head(tasks)
           b == Prepare(t.block, t.chainHeight, chain, clock)
       IN /\ chain' = Push(chain, b)
          /\ height' = Incremented(height)
          /\ outcome' = [NoOutcome EXCEPT !.op = t.op, !.status = "resolved",
                                          !.block = Len(chain) + 1,
                                          !.elapsed = t.elapsed,
                                          !.verified = t.verified]
          /\ appended' = IF t.ctor THEN appended ELSE appended + 1
    /\ tasks' = Tail(tasks)
    /\ UNCHANGED <<clock, started, overlap, tampered>>

(* _addBlock(block) called directly *)
AddBlockCall(block) ==
    /\ Room
    /\ tasks' = Append(tasks, AddBlockTask("_addBlock", block, FALSE, NaN, FALSE))
    /\ started' = TRUE
    /\ overlap' = (overlap \/ InFlightAppend)
    /\ outcome' = NoOutcome
    /\ UNCHANGED <<chain, height, clock, appended, tampered>>

(* initializeChain() called again by a client *)
InitializeChain ==
    /\ Room
    /\ started' = TRUE
    /\ overlap' = (overlap \/ InFlightAppend)
    /\ IF height = -1
       THEN /\ tasks' = Append(tasks,
                   AddBlockTask("initializeChain", Block(GenesisData), FALSE,
                                NaN, FALSE))
            /\ outcome' = NoOutcome
       ELSE /\ outcome' = [NoOutcome EXCEPT !.op = "initializeChain",
                                            !.status = "resolved"]
            /\ UNCHANGED tasks
    /\ UNCHANGED <<chain, height, clock, appended, tampered>>

Tick ==
    /\ \E t \in Times : t > clock /\ clock' = t
    /\ outcome' = NoOutcome
    /\ UNCHANGED <<chain, height, tasks, started, overlap, appended, tampered>>

(* Blocks a caller hands to _addBlock directly: new Block(data), whose hash
   field is null, or one whose hash field already holds a value *)
ClientBlocks ==
    {[Block(StarData(<<10>>, Challenge(<<10>>, Issued), "valid", 1))
        EXCEPT !.hash = h] : h \in {Null, StaleHash}}

-----------------------------------------------------------------------------
(* requestMessageOwnershipVerification(address) *)

(* Resolves with the message to sign; no field of the object is written *)
RequestMessageOwnershipVerification(address) ==
    /\ outcome' = [NoOutcome EXCEPT
                      !.op = "requestMessageOwnershipVerification",
                      !.status = "resolved",
                      !.address = address,
                      !.message = Challenge(address, clock)]
    /\ UNCHANGED <<chain, height, clock, tasks, started, overlap, appended, tampered>>

-----------------------------------------------------------------------------
(* submitStar(address, message, signature, star) *)

FiveMinutes == 300

(* Variant: the five-minute limit is inclusive *)
FreshInclusive(currentTime, messageTime) ==
    Less(Sub(currentTime, messageTime), Num(FiveMinutes + 1))

Fresh(currentTime, messageTime) ==
    Less(Sub(currentTime, messageTime), Num(FiveMinutes))

Rejected(op, reason, elapsed, verified) ==
    [NoOutcome EXCEPT !.op = op, !.status = "rejected", !.reason = reason,
                      !.elapsed = elapsed, !.verified = verified]

(* The synchronous part: up to `await bitcoinMessage.verify(...)` *)
SubmitStarCall(address, message, signature, star) ==
    /\ Room
    /\ started' = TRUE
    /\ overlap' = (overlap \/ InFlightAppend)
    /\ IF ~message.splittable
       THEN \* message.split throws inside the async executor: nothing settles
            /\ outcome' = [NoOutcome EXCEPT !.op = "submitStar",
                                            !.status = "pending",
                                            !.reason = "TypeError"]
            /\ UNCHANGED tasks
       ELSE LET messageTime == parseInt(SecondSegment(message))
                currentTime == parseInt(Str(NowSeconds(clock)))
            IN IF VerifyThrows(message, address, signature)
               THEN /\ outcome' = Rejected("submitStar", "error.message",
                                           Sub(currentTime, messageTime), FALSE)
                    /\ UNCHANGED tasks
               ELSE /\ tasks' = Append(tasks,
                          [op |-> "submitStar", pc |-> "await",
                           address |-> address, message |-> message,
                           signature |-> signature, star |-> star,
                           messageTime |-> messageTime,
                           currentTime |-> currentTime,
                           verified |-> Verify(message, address, signature)])
                    /\ outcome' = NoOutcome
    /\ UNCHANGED <<chain, height, clock, appended, tampered>>

(* Variant: the result of the verification is not consulted *)
PolicyUnverified(currentTime, messageTime, verified) ==
    IF Less(Sub(currentTime, messageTime), Num(300))
    THEN "append"
    ELSE "Validation older than 5 minutes"

(* Variant: a claim is accepted only while the chain holds no other block
   than the genesis block *)
PolicyFirstClaimOnly(currentTime, messageTime, verified) ==
    IF Less(Sub(currentTime, messageTime), Num(300))
    THEN IF verified /\ height < 1 THEN "append" ELSE "Signature not verified"
    ELSE "Validation older than 5 minutes"

(* The policy after the await: "append", or the reason of the rejection *)
Policy(currentTime, messageTime, verified) ==
    IF Fresh(currentTime, messageTime)
    THEN IF verified THEN "append" ELSE "Signature not verified"
    ELSE "Validation older than 5 minutes"

(* After the await: the policy, and the call of _addBlock *)
SubmitStarResume ==
    /\ tasks # <<>>
    /\ Head(tasks).op = "submitStar"
    /\ Head(tasks).pc = "await"
    /\ LET t == Head(tasks)
           elapsed == Sub(t.currentTime, t.messageTime)
           decision == Policy(t.currentTime, t.messageTime, t.verified)
       IN IF decision = "append"
          THEN /\ tasks' = Append(Tail(tasks),
                     AddBlockTask("submitStar",
                         Block(StarData(t.address, t.message, t.signature, t.star)),
                         FALSE, elapsed, t.verified))
               /\ outcome' = NoOutcome
          ELSE /\ outcome' = Rejected("submitStar", decision, elapsed, t.verified)
               /\ tasks' = Tail(tasks)
    /\ UNCHANGED <<chain, height, clock, started, overlap, appended, tampered>>

-----------------------------------------------------------------------------
(* validateChain() *)

ExpectedPrevious(ch, i) == IF i = 1 THEN Null ELSE ch[i - 1].hash

FailingBlocks(ch) == {i \in 1..Len(ch) : ~BlockValidate(ch[i])}

MismatchBlocks(ch) ==
    {i \in 1..Len(ch) : ch[i].previousBlockHash # ExpectedPrevious(ch, i)}

(* What the executor has in errorLog when its loop ends: the loop only
   starts block.validate() for every block and attaches the callbacks *)
ErrorLogAtReport(ch) == <<>>

(* The executor: the loop, then errorLog decides the result *)
ValidateChainCall ==
    /\ CanCall
    /\ LET errorLog == ErrorLogAtReport(chain)
       IN outcome' = [NoOutcome EXCEPT
                         !.op = "validateChain",
                         !.status = IF Len(errorLog) = 0 THEN "resolved" ELSE "rejected",
                         !.errors = errorLog,
                         !.failing = FailingBlocks(chain),
                         !.mismatch = MismatchBlocks(chain),
                         !.altered = tampered]
    /\ tasks' = IF Len(chain) = 0 THEN tasks
                ELSE Append(tasks, [op |-> "validateChain", pc |-> "callbacks",
                                    n |-> Len(chain)])
    /\ UNCHANGED <<chain, height, clock, started, overlap, appended, tampered>>

(* The callbacks of block.validate().then(...), for blocks i..n in order *)
RECURSIVE Callbacks(_, _, _, _, _)
Callbacks(ch, i, n, previousBlockHash, errorLog) ==
    IF i > n THEN errorLog
    ELSE LET block == ch[i]
         IN IF BlockValidateRejects(block)
            THEN Callbacks(ch, i + 1, n, previousBlockHash,
                           Append(errorLog, [block |-> i,
                                             message |-> "Block validation fails"]))
            ELSE IF previousBlockHash = block.previousBlockHash
            THEN Callbacks(ch, i + 1, n, block.hash, errorLog)
            ELSE Callbacks(ch, i + 1, n, previousBlockHash,
                           Append(errorLog, [block |-> i,
                                             message |-> "previous hash does not match"]))

(* The callbacks were queued together by the loop, so they run one after the
   other; by now the promise is settled and errorLog reaches nobody *)
ValidateChainThen ==
    /\ tasks # <<>>
    /\ Head(tasks).op = "validateChain"
    /\ outcome' = [NoOutcome EXCEPT
                      !.op = "validateChain",
                      !.arg = Head(tasks).n,
                      !.errors = Callbacks(chain, 1, Head(tasks).n, Null, <<>>)]
    /\ tasks' = Tail(tasks)
    /\ UNCHANGED <<chain, height, clock, started, overlap, appended, tampered>>

-----------------------------------------------------------------------------
(* getBlockByHeight(height) *)

(* self.chain.filter(p => p.height === height)[0]: the position of the first
   block whose height field is the one asked for, 0 for undefined *)
FirstWithHeight(ch, h) ==
    LET found == {i \in 1..Len(ch) : ch[i].height = h}
    IN IF found = {} THEN 0
       ELSE CHOOSE i \in found : \A j \in found : i <= j

Heights == 0 - 1 .. MaxChain

(* The executor resolves at once: with the block, or with null (block 0) *)
GetBlockByHeight(h) ==
    /\ outcome' = [NoOutcome EXCEPT !.op = "getBlockByHeight",
                                    !.status = "resolved",
                                    !.arg = h,
                                    !.block = FirstWithHeight(chain, h)]
    /\ UNCHANGED <<chain, height, clock, tasks, started, overlap, appended, tampered>>

-----------------------------------------------------------------------------
(* getStarsByWalletAddress(address) *)

(* block.getBData(): a promise for the decoded body.  The decoding may be
   done when getBData returns, or finish in a later turn of the event loop *)
getBData(b) == Decode(b.body)
DecodeTimings == {"settled", "later"}

(* body.address == address *)
Owns(body, address) == "address" \in DOMAIN body /\ body.address = address

(* The callbacks of block.getBData().then(...), for blocks i..n in order:
   they push into the array that filter returned *)
RECURSIVE StarsCallbacks(_, _, _, _, _)
StarsCallbacks(ch, i, n, address, stars) ==
    IF i > n THEN stars
    ELSE LET body == getBData(ch[i])
         IN IF Owns(body, address)
            THEN StarsCallbacks(ch, i + 1, n, address,
                                Append(stars, [owner |-> address, star |-> body.star]))
            ELSE StarsCallbacks(ch, i + 1, n, address, stars)

(* The executor and the caller's continuation.  filter calls getBData() on
   every block and attaches the callbacks; its predicate returns undefined,
   so filter returns an empty array, which is assigned to stars and resolved.
   The caller's continuation then looks at that array: with the bodies
   decoded when getBData returned, the callbacks were queued by the executor
   ahead of the continuation and have pushed into the array; with a decoding
   that finishes later they run after it.  The blocks are those of the chain
   at the call and their bodies do not change, so nothing that runs in
   between alters what is observed *)
GetStarsByWalletAddress(address, timing) ==
    /\ outcome' = [NoOutcome EXCEPT
                      !.op = "getStarsByWalletAddress",
                      !.status = "resolved",
                      !.address = address,
                      !.arg = Len(chain),
                      !.reason = timing,
                      !.stars = IF timing = "settled"
                                THEN StarsCallbacks(chain, 1, Len(chain), address, <<>>)
                                ELSE <<>>]
    /\ UNCHANGED <<chain, height, clock, tasks, started, overlap, appended, tampered>>

-----------------------------------------------------------------------------
(* A block object of the chain altered from outside the class *)

TamperFields == {"height", "time", "previousBlockHash", "body"}

Altered(b, field) ==
    CASE field = "height" -> [b EXCEPT !.height = b.height + 1]
      [] field = "time" -> [b EXCEPT !.time = Append(b.time, 0)]
      [] field = "previousBlockHash" ->
            [b EXCEPT !.previousBlockHash = SHA256(b.previousBlockHash)]
      [] field = "body" -> [b EXCEPT !.body = Encode([altered |-> Decode(b.body)])]

Tamper(i, field) ==
    /\ tampered = {}
    /\ i \in 1..Len(chain)
    /\ chain' = [chain EXCEPT ![i] = Altered(chain[i], field)]
    /\ tampered' = {i}
    /\ outcome' = NoOutcome
    /\ UNCHANGED <<height, clock, tasks, started, overlap, appended>>

-----------------------------------------------------------------------------

Next ==
    \/ Tick
    \/ AddBlockThen
    \/ \E b \in ClientBlocks : AddBlockCall(b)
    \/ InitializeChain
    \/ \E a \in Addresses, star \in Stars :
          \E in \in Submissions(a) : SubmitStarCall(a, in[1], in[2], star)
    \/ SubmitStarResume
    \/ ValidateChainCall
    \/ ValidateChainThen

Spec == Init /\ [][Next]_vars

ReadOps ==
    {"requestMessageOwnershipVerification", "getBlockByHeight",
     "getStarsByWalletAddress"}

(* The operations that write nothing, run between the steps of the others.
   They change `outcome` alone, so one made right after another reaches no
   state that the first could not reach from the same step: they are taken
   after the steps of the other operations only *)
NextReads ==
    \/ Next
    \/ /\ outcome.op \notin ReadOps
       /\ \/ \E a \in Addresses : RequestMessageOwnershipVerification(a)
          \/ \E h \in Heights : GetBlockByHeight(h)
          \/ \E a \in Addresses, timing \in DecodeTimings :
                GetStarsByWalletAddress(a, timing)

SpecReads == Init /\ [][NextReads]_vars

NextTamper ==
    \/ Next
    \/ \E i \in 1..MaxChain, f \in TamperFields : Tamper(i, f)

SpecTamper == Init /\ [][NextTamper]_vars

-----------------------------------------------------------------------------
(* Properties *)

Linked(ch) ==
    \A i \in 2..Len(ch) : ch[i].previousBlockHash = ch[i - 1].hash

(* C1: after n appends made one at a time on a freshly initialized ledger,
   getChainHeight() gives n and the block at index i has height i *)
C1_AppendMonotonic ==
    (~overlap /\ chain # <<>>) =>
        /\ getChainHeight = appended
        /\ \A i \in 1..Len(chain) : chain[i].height = i - 1

C1_Witness ==
    /\ ~overlap
    /\ appended = 2
    /\ outcome.status = "resolved"
    /\ outcome.op \in {"_addBlock", "submitStar"}

(* C2: with appends made one at a time, after every append each block past
   the first carries the hash of the block before it, and the first block
   has a null previous hash and height 0 *)
C2_Linkage ==
    (~overlap /\ chain # <<>>) =>
        /\ Linked(chain)
        /\ chain[1].previousBlockHash = Null
        /\ chain[1].height = 0

C2_Witness ==
    /\ ~overlap
    /\ Len(chain) = 3
    /\ outcome.status = "resolved"
    /\ outcome.block = 3

(* C3: appends that overlap are serialized: no two blocks of the chain have
   the same height, and each block past the first carries the hash of the
   block before it *)
C3_Serialized ==
    /\ \A i, j \in 1..Len(chain) : i # j => chain[i].height # chain[j].height
    /\ Linked(chain)

(* C4: in every state, also between the steps of overlapping appends, the
   cached height is length(chain) - 1, and -1 exactly for the empty chain *)
C4_CachedHeight ==
    /\ height = Len(chain) - 1
    /\ (height = -1) <=> (chain = <<>>)

C4_Witness ==
    /\ overlap
    /\ Len(chain) >= 2
    /\ InFlightAppend

(* The step runs the continuation at the head of the queue *)
HeadStep ==
    /\ tasks # <<>>
    /\ tasks' # tasks
    /\ Len(tasks') <= Len(tasks)
    /\ SubSeq(tasks', 1, Len(tasks) - 1) = Tail(tasks)

(* The step is a call of submitStar that reaches its await *)
SubmitStarCallStep ==
    /\ Len(tasks') = Len(tasks) + 1
    /\ tasks'[Len(tasks')].op = "submitStar"

ResumesSubmitStar ==
    /\ HeadStep
    /\ Head(tasks).op = "submitStar"
    /\ Head(tasks).pc = "await"

(* The constructor's initializeChain() has appended its block *)
Initialized ==
    ~\E s \in 1..Len(tasks) : tasks[s].op = "initializeChain" /\ tasks[s].ctor

(* C5: a freshly initialized ledger, before anything is submitted, has
   exactly one block, of height 0, with a null previous hash, and the block
   passes its own validation *)
C5_Genesis ==
    (~started /\ Initialized) =>
        /\ Len(chain) = 1
        /\ chain[1].height = 0
        /\ chain[1].previousBlockHash = Null
        /\ BlockValidate(chain[1])

C5_Witness ==
    /\ ~started
    /\ Initialized
    /\ outcome.op = "initializeChain"
    /\ outcome.status = "resolved"
    /\ outcome.block = 1

Reports(errors, i) == \E k \in 1..Len(errors) : errors[k].block = i

ReportsMismatch(errors, i) ==
    \E k \in 1..Len(errors) :
        errors[k].block = i /\ errors[k].message = "previous hash does not match"

ValidateChainSettled ==
    outcome.op = "validateChain" /\ outcome.status \in {"resolved", "rejected"}

(* C6: a block with a field other than hash changed after it was sealed fails
   its own validation, and what validateChain reports to its caller holds a
   record for that block *)
C6_TamperReported ==
    /\ \A i \in tampered : ~BlockValidate(chain[i])
    /\ ValidateChainSettled =>
          \A i \in outcome.altered : Reports(outcome.errors, i)

(* C7: what validateChain reports holds a previous-hash-mismatch record for
   every block whose previous hash is not the expected one, and it reports no
   errors only when no block fails its validation or its link *)
C7_MismatchReported ==
    ValidateChainSettled =>
        /\ \A i \in outcome.mismatch : ReportsMismatch(outcome.errors, i)
        /\ (outcome.status = "resolved") =>
              (outcome.failing = {} /\ outcome.mismatch = {})

(* C8: with a signature that verifies, submitStar appends one block and
   resolves when currentTime - messageTime is 299 or less, and is rejected as
   older than five minutes, appending nothing, when it is 300 or more *)
C8_Step ==
    /\ (ResumesSubmitStar /\ Head(tasks).signature = "valid"
                          /\ ~Head(tasks).messageTime.nan) =>
          LET t == Head(tasks)
              e == t.currentTime.val - t.messageTime.val
          IN /\ (e <= 299) =>
                   /\ Len(tasks') = Len(tasks)
                   /\ tasks'[Len(tasks')].op = "submitStar"
                   /\ tasks'[Len(tasks')].pc = "then"
                   /\ Decode(tasks'[Len(tasks')].block.body) =
                          StarData(t.address, t.message, t.signature, t.star)
                   /\ outcome'.status # "rejected"
             /\ (e >= 300) =>
                   /\ outcome'.op = "submitStar"
                   /\ outcome'.status = "rejected"
                   /\ outcome'.reason = "Validation older than 5 minutes"
                   /\ tasks' = Tail(tasks)
                   /\ chain' = chain
                   /\ height' = height
    /\ (HeadStep /\ Head(tasks).op = "submitStar" /\ Head(tasks).pc = "then") =>
          /\ Len(chain') = Len(chain) + 1
          /\ SubSeq(chain', 1, Len(chain)) = chain
          /\ chain'[Len(chain')].body = Head(tasks).block.body
          /\ outcome'.op = "submitStar"
          /\ outcome'.status = "resolved"
          /\ outcome'.block = Len(chain')

C8_FreshnessBoundary == [][C8_Step]_vars

C8_Witness ==
    /\ outcome.op = "submitStar"
    /\ outcome.status = "rejected"
    /\ outcome.verified
    /\ outcome.elapsed = Num(300)
    /\ \E s \in 1..Len(tasks) :
          /\ tasks[s].op = "submitStar"
          /\ tasks[s].pc = "then"
          /\ tasks[s].elapsed = Num(299)

(* C9: a submitStar whose message is fresh and whose signature does not
   verify is rejected for the signature, and neither its call nor its
   rejection changes the chain or the height *)
C9_Step ==
    /\ (ResumesSubmitStar /\ Head(tasks).signature = "nonmatching"
                          /\ ~Head(tasks).messageTime.nan
                          /\ Head(tasks).currentTime.val - Head(tasks).messageTime.val < 300) =>
          /\ outcome'.op = "submitStar"
          /\ outcome'.status = "rejected"
          /\ outcome'.reason = "Signature not verified"
          /\ tasks' = Tail(tasks)
          /\ chain' = chain
          /\ height' = height
    /\ SubmitStarCallStep => (chain' = chain /\ height' = height)

C9_SignatureRejected == [][C9_Step]_vars

C9_Witness ==
    /\ outcome.op = "submitStar"
    /\ outcome.reason = "Signature not verified"
    /\ outcome.elapsed = Num(299)
    /\ Len(chain) >= 2

(* C10: a submitStar whose message has no second segment, or a second
   segment that is not a number, fails with an error of its own, different
   from the expired and the signature rejections, and appends nothing *)
C10_MalformedDistinct ==
    (outcome.op = "submitStar" /\ outcome.status \in {"resolved", "rejected"}
                               /\ outcome.elapsed.nan) =>
        /\ outcome.status = "rejected"
        /\ outcome.reason \notin {"Validation older than 5 minutes",
                                  "Signature not verified"}

(* C11: whenever currentTime - messageTime is 300 or more, submitStar is
   rejected as older than five minutes, whether the verification gives
   false or fails with an error *)
C11_ExpiredFirst ==
    (outcome.op = "submitStar" /\ outcome.status = "rejected"
        /\ ~outcome.elapsed.nan /\ outcome.elapsed.val >= 300) =>
        outcome.reason = "Validation older than 5 minutes"

(* C13: the chain is append-only: no step shortens it, and every block in it
   keeps its position and all its fields *)
C13_Step ==
    /\ Len(chain') >= Len(chain)
    /\ \A i \in 1..Len(chain) : chain'[i] = chain[i]

GenesisBlocks(ch) == {i \in 1..Len(ch) : Decode(ch[i].body) = GenesisData}

(* C14: initializeChain is idempotent: however often it is invoked, also
   before an earlier invocation has appended its block, the chain holds one
   genesis block; on a non-empty ledger it changes neither chain nor height *)
C14_OneGenesis == Cardinality(GenesisBlocks(chain)) <= 1

(* The digest of the block's content, its stored hash left out *)
ContentDigest(b) == SHA256(Stringify([b EXCEPT !.hash = Null]))

(* C15: for every block sealed by _addBlock, the digest recomputed over
   height, time, previousBlockHash and body, the stored hash left out, is the
   stored hash, whatever the hash field held when the block was handed in *)
C15_HashDeterminism ==
    \A i \in 1..Len(chain) : ContentDigest(chain[i]) = chain[i].hash

(* The blocks among the first n whose decoded body carries the address *)
Matching(ch, n, address) ==
    {i \in 1..n : Owns(Decode(ch[i].body), address)}

(* C12: the array the caller of getStarsByWalletAddress observes holds one
   {owner, star} entry for each block whose decoded address is the one asked
   for, and is empty only if there is none *)
C12_StarsComplete ==
    (outcome.op = "getStarsByWalletAddress") =>
        /\ Len(outcome.stars) =
               Cardinality(Matching(chain, outcome.arg, outcome.address))
        /\ \A k \in 1..Len(outcome.stars) :
               outcome.stars[k].owner = outcome.address

(* C16: getBlockByHeight(h) resolves with the block at position h of the
   chain for every h from 0 to getChainHeight(), and with null for every
   other h; it never rejects *)
C16_ByHeight ==
    (outcome.op = "getBlockByHeight") =>
        /\ outcome.status = "resolved"
        /\ outcome.block =
               IF 0 <= outcome.arg /\ outcome.arg <= getChainHeight
               THEN outcome.arg + 1
               ELSE 0

(* C17: validateChain takes up the hash of every block it has processed,
   matched or not, as the next expected previous hash: when one block alone
   has a wrong previousBlockHash, errorLog ends with one mismatch record *)
C17_Resynchronizes ==
    (outcome.op = "validateChain" /\ outcome.status = "none" /\ ~overlap) =>
        \A i \in 1..outcome.arg :
            MismatchBlocks(SubSeq(chain, 1, outcome.arg)) = {i} =>
                /\ Len(outcome.errors) = 1
                /\ ReportsMismatch(outcome.errors, i)

(* A block as the _addBlock callback leaves it at position i of ch *)
FullyAssigned(ch, i) ==
    LET b == ch[i]
    IN /\ b.height \in 0..(i - 1)
       /\ b.time \in {NowSeconds(t) : t \in Times}
       /\ IF b.height = 0
          THEN b.previousBlockHash = Null
          ELSE \E j \in 1..(i - 1) : b.previousBlockHash = ch[j].hash
       /\ b.hash # Null
       /\ \E handed \in {Null, StaleHash} :
             b.hash = SHA256(Stringify([b EXCEPT !.hash = handed]))

(* C18: in every state a read can run in, every block of the chain has its
   height, time, previousBlockHash and hash assigned, and the cached height
   counts it *)
C18_NoPartialBlock ==
    /\ \A i \in 1..Len(chain) : FullyAssigned(chain, i)
    /\ height = Len(chain) - 1

C18_Witness ==
    /\ InFlightAppend
    /\ Len(chain) >= 2
    /\ outcome.op = "getBlockByHeight"
    /\ outcome.block = Len(chain)

(* What submitStar decides, from its arguments, the time it read and the
   result of the verification *)
Decision(message, signature, currentTime) ==
    LET messageTime == parseInt(SecondSegment(message))
    IN IF ~messageTime.nan /\ ~currentTime.nan
            /\ currentTime.val - messageTime.val < 300
       THEN IF signature = "valid" THEN "append" ELSE "Signature not verified"
       ELSE "Validation older than 5 minutes"

(* The messages requestMessageOwnershipVerification can have resolved with *)
IssuableMessages == {Challenge(a, t) : a \in Addresses, t \in Times}

(* C19: requestMessageOwnershipVerification changes neither the chain nor
   the height and queues nothing; what submitStar decides is given by its
   arguments, the clock and the verification, whatever the chain holds and
   whatever challenge was issued *)
C19_Step ==
    /\ (outcome'.op = "requestMessageOwnershipVerification") =>
          /\ chain' = chain
          /\ height' = height
          /\ tasks' = tasks
          /\ outcome'.status = "resolved"
          /\ outcome'.message = Msg(<<outcome'.address, NowSeconds(clock), <<12>>>>)
    /\ ResumesSubmitStar =>
          LET t == Head(tasks)
              d == Decision(t.message, t.signature, t.currentTime)
          IN IF d = "append"
             THEN /\ Len(tasks') = Len(tasks)
                  /\ tasks'[Len(tasks')].op = "submitStar"
                  /\ tasks'[Len(tasks')].pc = "then"
                  /\ outcome'.status # "rejected"
             ELSE /\ outcome'.op = "submitStar"
                  /\ outcome'.status = "rejected"
                  /\ outcome'.reason = d
                  /\ tasks' = Tail(tasks)

C19_Stateless == [][C19_Step]_vars

C19_Witness ==
    /\ outcome.op = "submitStar"
    /\ outcome.status = "resolved"
    /\ outcome.block = 3
    /\ chain[2].body = chain[3].body
    /\ Decode(chain[3].body).message \notin IssuableMessages

(* C20: every call of submitStar settles, resolved or rejected, whatever the
   message: no call is left pending *)
C20_Settles == ~(outcome.op = "submitStar" /\ outcome.status = "pending")

====
